---- MODULE Spec2Model ----
(***************************************************************************)
(* Linearify: the Linear region-file codec of src/lib.rs.                  *)
(*                                                                         *)
(*   Region::write_linear  serialises a Region into                        *)
(*                         <dir>/r.<region_x>.<region_z>.linear through a  *)
(*                         temporary file <...>.linear.wip and a rename;   *)
(*   open_linear           parses and validates such a file.               *)
(*                                                                         *)
(* Files are byte sequences (0..255), integers keep their Rust width       *)
(* (i16, i32; an i64 is a pair of 32-bit words because TLC's integers      *)
(* are 32 bits wide), paths are sequences of characters.  The              *)
(* slot count of a region (1024 in the source) is the bound NumSlots.      *)
(***************************************************************************)
EXTENDS Integers, Sequences, FiniteSets, TLC

VARIABLES
    dir,              \* the directory: path -> inode number
    inodes,           \* inode number -> file content (a byte sequence)
    wr,               \* per write_linear call: its arguments, locals and position
    prior,            \* the final path before the calls: <<>> (absent) or <<content>>
    tampered,         \* <<>> or <<offset, byte>>: the byte changed on disk afterwards
    overflow_checks,  \* the build: TRUE panics on integer overflow, FALSE wraps
    input,            \* what the file handed to open_linear was made from
    rpath,            \* the path handed to open_linear
    result            \* <<>> or <<r>>: what open_linear came back with

vars == <<dir, inodes, wr, prior, tampered, overflow_checks, input, rpath, result>>

(***************************************************************************)
(* Bounds of the model.                                                    *)
(***************************************************************************)
\* Slots per region: `1024` in the source (lib.rs:76, 88, 166, 170, 189).
NumSlots == 34
\* Capacity of the BufWriter (std's default is 8192 bytes).
BufCapacity == 64

(***************************************************************************)
(* Program constants.                                                      *)
(***************************************************************************)
\* -4323716122432332390 = 0xC3FF1318_3CCA9D9A as <<high word, low word>>.
LINEAR_SIGNATURE == <<-1006693608, 1019911578>>
LINEAR_VERSION == 2
LINEAR_SUPPORTED == {1, 2}
\* 8 bytes per slot-table entry: 8192 for the 1024 slots of the source.
HEADER_SIZE == 8 * NumSlots
\* Chunks per region row: the 32 of `i % 32`, `i / 32` and `32 * region_x`.
RegionWidth == 32

Slots == 0 .. (NumSlots - 1)

(***************************************************************************)
(* Fixed-width integers.                                                   *)
(***************************************************************************)
MaxI32 == 32767 * 65536 + 65535
MinI32 == (-32768) * 65536

\* i32::to_be_bytes
I32ToBE(v) ==
    LET hi == (v \div 65536) % 65536
        lo == v % 65536
    IN  <<hi \div 256, hi % 256, lo \div 256, lo % 256>>

\* ReadBytesExt::read_i32::<BigEndian> on 4 bytes
BEToI32(b) ==
    LET hi == b[1] * 256 + b[2]
        lo == b[3] * 256 + b[4]
    IN  (IF hi >= 32768 THEN hi - 65536 ELSE hi) * 65536 + lo

\* WriteBytesExt::write_i16::<BigEndian>
I16ToBE(v) ==
    LET u == v % 65536
    IN  <<u \div 256, u % 256>>

\* ReadBytesExt::read_i16::<BigEndian> on 2 bytes
BEToI16(b) ==
    LET u == b[1] * 256 + b[2]
    IN  IF u >= 32768 THEN u - 65536 ELSE u

\* WriteBytesExt::write_i8 of `v as i8`: the low byte.
I8ToByte(v) == v % 256

\* ReadBytesExt::read_i8
ByteToI8(b) == IF b >= 128 THEN b - 256 ELSE b

\* WriteBytesExt::write_i64::<BigEndian>: the high word, then the low word.
I64ToBE(v) == I32ToBE(v[1]) \o I32ToBE(v[2])

\* ReadBytesExt::read_i64::<BigEndian> on 8 bytes
BEToI64(b) == <<BEToI32(SubSeq(b, 1, 4)), BEToI32(SubSeq(b, 5, 8))>>

\* i32 addition: the wrapped sum and whether it overflowed.
AddI32(a, b) ==
    LET lo == (a % 65536) + (b % 65536)
        hi == (a \div 65536) + (b \div 65536) + (lo \div 65536)
        wh == ((hi + 32768) % 65536) - 32768
    IN  [value |-> wh * 65536 + (lo % 65536),
         overflow |-> hi < -32768 \/ hi > 32767]

(***************************************************************************)
(* Strings: sequences of characters.  "linear", "wip" and "dir" stand for  *)
(* runs of letters, which neither split nor parse looks into.              *)
(***************************************************************************)
Digits == <<"0", "1", "2", "3", "4", "5", "6", "7", "8", "9">>

DigitValue(c) == (CHOOSE k \in 1 .. 10 : Digits[k] = c) - 1

IsDigit(c) == \E k \in 1 .. 10 : Digits[k] = c

\* format!("{}", n) for a usize
RECURSIVE ToDecimal(_)
ToDecimal(n) ==
    IF n < 10 THEN <<Digits[n + 1]>>
    ELSE ToDecimal(n \div 10) \o <<Digits[(n % 10) + 1]>>

RECURSIVE DigitsValue(_, _)
DigitsValue(s, acc) ==
    IF s = <<>> THEN acc
    ELSE DigitsValue(Tail(s), acc * 10 + DigitValue(Head(s)))

\* str::parse::<usize>: an optional "+", then one or more digits.
\* <<>> is the ParseIntError, <<n>> the value.
ParseUsize(s) ==
    LET body == IF s # <<>> /\ Head(s) = "+" THEN Tail(s) ELSE s
    IN  IF body = <<>> \/ \E k \in 1 .. Len(body) : ~IsDigit(body[k])
        THEN <<>>
        ELSE <<DigitsValue(body, 0)>>

\* str::split(sep).collect(): the pieces between the separators.
RECURSIVE Split(_, _)
Split(s, sep) ==
    IF \A k \in 1 .. Len(s) : s[k] # sep THEN <<s>>
    ELSE LET k == CHOOSE j \in 1 .. Len(s) :
                      s[j] = sep /\ \A m \in 1 .. (j - 1) : s[m] # sep
         IN  <<SubSeq(s, 1, k - 1)>> \o Split(SubSeq(s, k + 1, Len(s)), sep)

\* format!("{}/r.{}.{}.linear", dir, self.region_x, self.region_z)
Path(d, self) ==
    d \o <<"/", "r", ".">> \o ToDecimal(self.region_x) \o <<".">>
      \o ToDecimal(self.region_z) \o <<".", "linear">>

\* Mutant of WipPath: the file is written in place, at the final path.
WipPathInPlace(d, self) == Path(d, self)

\* format!("{}/r.{}.{}.linear.wip", dir, self.region_x, self.region_z)
WipPath(d, self) ==
    d \o <<"/", "r", ".">> \o ToDecimal(self.region_x) \o <<".">>
      \o ToDecimal(self.region_z) \o <<".", "linear", ".", "wip">>

(***************************************************************************)
(* Region and Chunk.  An Option is <<>> (None) or <<v>> (Some(v)).         *)
(***************************************************************************)
Chunk(raw_chunk, x, z) == [raw_chunk |-> raw_chunk, x |-> x, z |-> z]

\* Region::count_chunks
count_chunks(self) == Cardinality({i \in Slots : self.chunks[i] # <<>>})

(***************************************************************************)
(* zstd, the compression collaborator: a frame is the magic number, the    *)
(* content length and the content.  decode_all gives <<>> on a malformed   *)
(* frame and <<bytes>> otherwise.                                          *)
(***************************************************************************)
ZstdMagic == <<40, 181, 47, 253>>

encode_all(raw) == ZstdMagic \o I32ToBE(Len(raw)) \o raw

decode_all(frame) ==
    IF Len(frame) < 8 \/ SubSeq(frame, 1, 4) # ZstdMagic THEN <<>>
    ELSE IF BEToI32(SubSeq(frame, 5, 8)) # Len(frame) - 8 THEN <<>>
    ELSE <<SubSeq(frame, 9, Len(frame))>>

(***************************************************************************)
(* write_linear: the bytes it produces.                                    *)
(***************************************************************************)
\* One slot-table entry: (size, timestamp), or (0, 0) for an empty slot.
TableEntry(self, i) ==
    IF self.chunks[i] # <<>>
    THEN I32ToBE(Len(self.chunks[i][1].raw_chunk)) \o I32ToBE(self.timestamps[i])
    ELSE I32ToBE(0) \o I32ToBE(0)

RECURSIVE SlotTable(_, _)
SlotTable(self, i) ==
    IF i = NumSlots THEN <<>> ELSE TableEntry(self, i) \o SlotTable(self, i + 1)

RECURSIVE ChunkData(_, _)
ChunkData(self, i) ==
    IF i = NumSlots THEN <<>>
    ELSE (IF self.chunks[i] # <<>> THEN self.chunks[i][1].raw_chunk ELSE <<>>)
         \o ChunkData(self, i + 1)

\* raw_data: the slot table, then every present payload in slot order.
RawData(self) == SlotTable(self, 0) \o ChunkData(self, 0)

\* The nine writes into the BufWriter, in order.
WriteSteps ==
    <<"signature", "version", "newest_timestamp", "compression_level",
      "chunk_count", "compressed_size", "datahash", "chunk_data", "footer">>

FieldBytes(w, step) ==
    CASE step = "signature" -> I64ToBE(LINEAR_SIGNATURE)
      [] step = "version" -> <<I8ToByte(LINEAR_VERSION)>>
      [] step = "newest_timestamp" -> I64ToBE(w.self.newest_timestamp)
      [] step = "compression_level" -> <<I8ToByte(w.compression_level)>>
      [] step = "chunk_count" -> I16ToBE(count_chunks(w.self))
      [] step = "compressed_size" -> I32ToBE(Len(w.encoded))
      [] step = "datahash" -> I64ToBE(<<0, 0>>)
      [] step = "chunk_data" -> w.encoded
      [] step = "footer" -> I64ToBE(LINEAR_SIGNATURE)

\* Everything write_linear writes, in order: the finished file.
RECURSIVE FieldsFrom(_, _)
FieldsFrom(w, k) ==
    IF k > Len(WriteSteps) THEN <<>>
    ELSE FieldBytes(w, WriteSteps[k]) \o FieldsFrom(w, k + 1)

FileImage(self, compression_level) ==
    FieldsFrom([self |-> self, compression_level |-> compression_level,
                encoded |-> encode_all(RawData(self))], 1)

(***************************************************************************)
(* The filesystem: a write through a file handle at its offset.            *)
(***************************************************************************)
\* The hole a write past the end of a file leaves behind.
Zeros(n) == [k \in 1 .. n |-> 0]

FileWriteAt(content, pos, data) ==
    IF pos >= Len(content) THEN content \o Zeros(pos - Len(content)) \o data
    ELSE SubSeq(content, 1, pos) \o data
         \o SubSeq(content, pos + Len(data) + 1, Len(content))

\* write(2) of `data` through writer p's handle; the handle's offset advances.
SysWrite(p, data) ==
    inodes' = [inodes EXCEPT ![wr[p].fd] = FileWriteAt(@, wr[p].pos, data)]

(***************************************************************************)
(* write_linear, one step per file operation.                              *)
(***************************************************************************)
NextStep(pc) ==
    IF pc = "footer" THEN "flush"
    ELSE WriteSteps[(CHOOSE k \in 1 .. Len(WriteSteps) : WriteSteps[k] = pc) + 1]

IsWriteStep(pc) == \E k \in 1 .. Len(WriteSteps) : WriteSteps[k] = pc

\* OpenOptions::new().write(true).create(true).truncate(true).open(&wip_path)
Open(p) ==
    /\ wr[p].pc = "open"
    /\ LET wp == WipPath(wr[p].dir, wr[p].self)
           ino == IF wp \in DOMAIN dir THEN dir[wp] ELSE Len(inodes) + 1
       IN  /\ dir' = IF wp \in DOMAIN dir THEN dir ELSE dir @@ (wp :> ino)
           /\ inodes' = IF wp \in DOMAIN dir THEN [inodes EXCEPT ![ino] = <<>>]
                        ELSE Append(inodes, <<>>)
           /\ wr' = [wr EXCEPT ![p].pc = "encode", ![p].fd = ino, ![p].pos = 0]
    /\ UNCHANGED <<prior, tampered, overflow_checks, input, rpath, result>>

\* raw_data is built and compressed: encode_all(raw_cursor, compression_level)
Encode(p) ==
    /\ wr[p].pc = "encode"
    /\ wr' = [wr EXCEPT ![p].pc = "signature",
                        ![p].encoded = encode_all(RawData(wr[p].self))]
    /\ UNCHANGED <<dir, inodes, prior, tampered, overflow_checks, input, rpath, result>>

\* What BufWriter::write_all does with `data` when `buf` is buffered:
\* "buffer" it, "flush_buf" first (a write of the buffer), or write it "direct".
WriteMode(buf, data) ==
    IF Len(data) < BufCapacity - Len(buf) THEN "buffer"
    ELSE IF Len(data) > BufCapacity - Len(buf) /\ buf # <<>> THEN "flush_buf"
    ELSE IF Len(data) >= BufCapacity THEN "direct"
    ELSE "buffer"

\* buffer.write_*(...)?: one of the nine writes into the BufWriter.
Write(p) ==
    /\ IsWriteStep(wr[p].pc)
    /\ LET data == FieldBytes(wr[p], wr[p].pc)
           mode == WriteMode(wr[p].buf, data)
       IN  CASE mode = "buffer" ->
                  /\ wr' = [wr EXCEPT ![p].buf = @ \o data,
                                      ![p].pc = NextStep(@)]
                  /\ UNCHANGED inodes
             [] mode = "flush_buf" ->
                  /\ SysWrite(p, wr[p].buf)
                  /\ wr' = [wr EXCEPT ![p].buf = <<>>,
                                      ![p].pos = @ + Len(wr[p].buf)]
             [] mode = "direct" ->
                  /\ SysWrite(p, data)
                  /\ wr' = [wr EXCEPT ![p].pos = @ + Len(data),
                                      ![p].pc = NextStep(@)]
    /\ UNCHANGED <<dir, prior, tampered, overflow_checks, input, rpath, result>>

\* buffer.flush()?
Flush(p) ==
    /\ wr[p].pc = "flush"
    /\ IF wr[p].buf # <<>> THEN SysWrite(p, wr[p].buf) ELSE UNCHANGED inodes
    /\ wr' = [wr EXCEPT ![p].buf = <<>>, ![p].pos = @ + Len(wr[p].buf),
                        ![p].pc = "rename"]
    /\ UNCHANGED <<dir, prior, tampered, overflow_checks, input, rpath, result>>

\* fs::rename(wip_path, path)?; Ok(())
Rename(p) ==
    /\ wr[p].pc = "rename"
    /\ LET wp == WipPath(wr[p].dir, wr[p].self)
           fp == Path(wr[p].dir, wr[p].self)
       IN  IF wp \in DOMAIN dir
           THEN /\ dir' = [q \in (DOMAIN dir \ {wp}) \cup {fp} |->
                              IF q = fp THEN dir[wp] ELSE dir[q]]
                /\ wr' = [wr EXCEPT ![p].pc = "done", ![p].ret = "Ok"]
           ELSE /\ dir' = dir
                /\ wr' = [wr EXCEPT ![p].pc = "drop"]
    /\ UNCHANGED <<inodes, prior, tampered, overflow_checks, input, rpath, result>>

\* Whether writer p's next step asks the operating system (or zstd) for
\* something that can fail.
CanFail(w) ==
    \/ w.pc \in {"open", "encode", "rename"}
    \/ w.pc = "flush" /\ w.buf # <<>>
    \/ IsWriteStep(w.pc) /\ WriteMode(w.buf, FieldBytes(w, w.pc)) # "buffer"

\* A `?` that returns the error: the step fails and changes nothing on disk.
\* Before the BufWriter exists the function returns at once.
IoError(p) ==
    /\ CanFail(wr[p])
    /\ wr' = [wr EXCEPT ![p].pc = IF @ \in {"open", "encode"} THEN "done" ELSE "drop",
                        ![p].ret = IF wr[p].pc \in {"open", "encode"} THEN "Err" ELSE @]
    /\ UNCHANGED <<dir, inodes, prior, tampered, overflow_checks, input, rpath, result>>

\* The error return drops the BufWriter, whose Drop tries flush_buf once more
\* and ignores its outcome.
Drop(p) ==
    /\ wr[p].pc = "drop"
    /\ \E flushed \in BOOLEAN :
          /\ IF flushed /\ wr[p].buf # <<>>
             THEN SysWrite(p, wr[p].buf) ELSE UNCHANGED inodes
          /\ wr' = [wr EXCEPT ![p].pc = "done", ![p].ret = "Err",
                              ![p].buf = IF flushed THEN <<>> ELSE @,
                              ![p].pos = IF flushed THEN @ + Len(wr[p].buf) ELSE @]
    /\ UNCHANGED <<dir, prior, tampered, overflow_checks, input, rpath, result>>

(***************************************************************************)
(* open_linear.  Its outcome is a returned Region, a returned error, or a  *)
(* panic (the call aborts and returns nothing).                            *)
(***************************************************************************)
Ok(region) == [kind |-> "Ok", err |-> "", region |-> <<region>>]
Err(e) == [kind |-> "Err", err |-> e, region |-> <<>>]
Panic(e) == [kind |-> "Panic", err |-> e, region |-> <<>>]

\* 32 * region_x + i % 32
ChunkX(region_x, i) == RegionWidth * region_x + (i % RegionWidth)

\* Mutant of ChunkZ: the column where the row belongs.
ChunkZByColumn(region_z, i) == RegionWidth * region_z + (i % RegionWidth)

\* 32 * region_z + i / 32
ChunkZ(region_z, i) == RegionWidth * region_z + (i \div RegionWidth)

\* The first loop: one (size, timestamp) pair per slot, the running total_size
\* and real_chunk_count.  status is "ok", "eof" (a read past the end of the
\* decompressed block) or "overflow" (total_size += size in a build that checks).
RECURSIVE ReadTable(_, _, _)
ReadTable(decoded, acc, oc) ==
    LET i == Len(acc.sizes)
    IN  IF i = NumSlots THEN acc
        ELSE IF Len(decoded) < 8 * i + 8 THEN [acc EXCEPT !.status = "eof"]
        ELSE LET size == BEToI32(SubSeq(decoded, 8 * i + 1, 8 * i + 4))
                 timestamp == BEToI32(SubSeq(decoded, 8 * i + 5, 8 * i + 8))
                 sum == AddI32(acc.total_size, size)
             IN  IF sum.overflow /\ oc THEN [acc EXCEPT !.status = "overflow"]
                 ELSE ReadTable(decoded,
                        [status |-> "ok",
                         total_size |-> sum.value,
                         real_chunk_count |->
                             acc.real_chunk_count + (IF size # 0 THEN 1 ELSE 0),
                         sizes |-> Append(acc.sizes, size),
                         timestamps |-> Append(acc.timestamps, timestamp)], oc)

\* total_size + HEADER_SIZE != decoded.len() as i32 (the sum as the build
\* that wraps computes it; the build that checks panics before comparing).
SizeMismatch(total_size, len) == AddI32(total_size, HEADER_SIZE).value # len

\* Mutant of CountMismatch: only too few chunks are a mismatch.
CountMismatchFewer(real_chunk_count, chunk_count) == real_chunk_count < chunk_count

\* real_chunk_count != chunk_count
CountMismatch(real_chunk_count, chunk_count) == real_chunk_count # chunk_count

\* sizes[i] > 0, where sizes[i] is `size as usize`: a negative i32 becomes a
\* value above 2^63, so every nonzero size is positive there.
SizeIsPositive(size) == size # 0

\* The second loop: the payload of every slot whose size is positive.
\* vec![0u8; sizes[i]] panics (capacity overflow) for a size that was negative.
RECURSIVE ReadChunks(_, _, _, _, _, _)
ReadChunks(decoded, sizes, i, pos, chunks, coords) ==
    IF i = NumSlots THEN Ok(chunks)
    ELSE IF ~SizeIsPositive(sizes[i + 1])
         THEN ReadChunks(decoded, sizes, i + 1, pos, chunks, coords)
    ELSE IF sizes[i + 1] < 0 THEN Panic("capacity overflow")
    ELSE IF sizes[i + 1] > Len(decoded) - pos THEN Err("Io: UnexpectedEof")
    ELSE ReadChunks(decoded, sizes, i + 1, pos + sizes[i + 1],
             [chunks EXCEPT ![i] =
                 <<Chunk(SubSeq(decoded, pos + 1, pos + sizes[i + 1]),
                         ChunkX(coords[1], i), ChunkZ(coords[2], i))>>],
             coords)

\* Lines 163-207: from the decompressed block to the Region.
Deserialize(decoded, chunk_count, newest_timestamp, coords, oc) ==
    LET t == ReadTable(decoded,
                 [status |-> "ok", total_size |-> 0, real_chunk_count |-> 0,
                  sizes |-> <<>>, timestamps |-> <<>>], oc)
    IN  IF t.status = "eof" THEN Err("Io: UnexpectedEof")
        ELSE IF t.status = "overflow" THEN Panic("attempt to add with overflow")
        ELSE IF AddI32(t.total_size, HEADER_SIZE).overflow /\ oc
             THEN Panic("attempt to add with overflow")
        ELSE IF SizeMismatch(t.total_size, Len(decoded))
             THEN Err("Invalid decompressed size")
        ELSE IF CountMismatch(t.real_chunk_count, chunk_count)
             THEN Err("Invalid chunk count")
        ELSE LET r == ReadChunks(decoded, t.sizes, 0, HEADER_SIZE,
                                 [i \in Slots |-> <<>>], coords)
             IN  IF r.kind # "Ok" THEN r
                 ELSE Ok([chunks |-> r.region[1],
                          region_x |-> coords[1],
                          region_z |-> coords[2],
                          timestamps |-> [i \in Slots |-> t.timestamps[i + 1]],
                          newest_timestamp |-> newest_timestamp])

\* signature != LINEAR_SIGNATURE
BadSignature(signature) == signature # LINEAR_SIGNATURE

\* Mutant of BadVersion: only the version write_linear writes is accepted.
BadVersionNotCurrent(version) == version # LINEAR_VERSION

\* !LINEAR_SUPPORTED.iter().any(|&num| num == version)
BadVersion(version) == version \notin LINEAR_SUPPORTED

\* Lines 126-160: the header, the three gates, the compressed payload.
ReadFile(file, coords, oc) ==
    IF Len(file) < 8 THEN Err("Io: seek before start")
    ELSE IF Len(file) < 24 THEN Err("Io: UnexpectedEof")
    ELSE LET signature_footer == BEToI64(SubSeq(file, Len(file) - 7, Len(file)))
             signature == BEToI64(SubSeq(file, 1, 8))
             version == ByteToI8(file[9])
             newest_timestamp == BEToI64(SubSeq(file, 10, 17))
             chunk_count == BEToI16(SubSeq(file, 19, 20))
             compressed_length == BEToI32(SubSeq(file, 21, 24))
         IN  IF BadSignature(signature) THEN Err("Invalid signature")
             ELSE IF BadVersion(version) THEN Err("Invalid version")
             ELSE IF BadSignature(signature_footer)
                  THEN Err("Invalid footer signature")
             ELSE IF compressed_length < 0 THEN Panic("capacity overflow")
             ELSE IF compressed_length > Len(file) - 32
                  THEN Err("Io: UnexpectedEof")
             ELSE LET decoded ==
                          decode_all(SubSeq(file, 33, 32 + compressed_length))
                  IN  IF decoded = <<>> THEN Err("zstd")
                      ELSE Deserialize(decoded[1], chunk_count,
                                       newest_timestamp, coords, oc)

Last(s) == s[Len(s)]

\* Lines 122-124: coords[1] and coords[2] of the file name split at '.'.
\* Indexing past the end of coords panics.
ParseCoords(path) ==
    LET coords == Split(Last(Split(path, "/")), ".")
    IN  IF Len(coords) < 2 THEN Panic("index out of bounds")
        ELSE IF ParseUsize(coords[2]) = <<>> THEN Err("ParseIntError")
        ELSE IF Len(coords) < 3 THEN Panic("index out of bounds")
        ELSE IF ParseUsize(coords[3]) = <<>> THEN Err("ParseIntError")
        ELSE Ok(<<ParseUsize(coords[2])[1], ParseUsize(coords[3])[1]>>)

open_linear(path, d, ino, oc) ==
    LET c == ParseCoords(path)
    IN  IF c.kind # "Ok" THEN c
        ELSE IF path \notin DOMAIN d THEN Err("Io: NotFound")
        ELSE ReadFile(ino[d[path]], c.region[1], oc)

\* A caller's open_linear(path) on what is on disk.
OpenLinear ==
    /\ result = <<>>
    /\ \A p \in DOMAIN wr : wr[p].pc = "done"
    /\ result' = <<open_linear(rpath, dir, inodes, overflow_checks)>>
    /\ UNCHANGED <<dir, inodes, wr, prior, tampered, overflow_checks, input, rpath>>

(***************************************************************************)
(* The regions handed to write_linear.                                     *)
(***************************************************************************)
\* The two slots the inputs populate: the first, and slot 33 (row 1, column 1).
HotSlots == {0, 33}

\* What a caller may put in a slot: no chunk or a payload, and a timestamp.
SlotChoices ==
    {[payload |-> <<>>, ts |-> 0],
     [payload |-> <<>>, ts |-> 9],
     [payload |-> << <<>> >>, ts |-> 3],
     [payload |-> << <<7>> >>, ts |-> -1],
     [payload |-> << <<1, 2>> >>, ts |-> 5]}

Settings ==
    {[region_x |-> 0, region_z |-> 0, newest_timestamp |-> <<0, 5>>,
      compression_level |-> 3],
     [region_x |-> 1, region_z |-> 12, newest_timestamp |-> <<-1, -2>>,
      compression_level |-> 300]}

EmptySlot == [payload |-> <<>>, ts |-> 0]

MakeRegion(c0, c33, s) ==
    LET c(i) == IF i = 0 THEN c0 ELSE IF i = 33 THEN c33 ELSE EmptySlot
    IN  [chunks |-> [i \in Slots |->
                        IF c(i).payload = <<>> THEN <<>>
                        ELSE <<Chunk(c(i).payload[1],
                                     RegionWidth * s.region_x + (i % RegionWidth),
                                     RegionWidth * s.region_z + (i \div RegionWidth))>>],
         region_x |-> s.region_x,
         region_z |-> s.region_z,
         timestamps |-> [i \in Slots |-> c(i).ts],
         newest_timestamp |-> s.newest_timestamp]

\* A write_linear call about to start.
NewCall(self, d, compression_level) ==
    [self |-> self, dir |-> d, compression_level |-> compression_level,
     pc |-> "open", fd |-> 0, pos |-> 0, buf |-> <<>>, encoded |-> <<>>,
     ret |-> ""]

TheDir == <<"dir">>

\* The file an earlier run left at the final path.
OldImage(s) == FileImage(MakeRegion(EmptySlot, EmptySlot, s), 1)

NoFiles == [q \in {} |-> 0]

(***************************************************************************)
(* Spec: one write_linear call, then a caller reads the file back, perhaps *)
(* after one byte of its signatures or version was changed on disk.        *)
(***************************************************************************)
Init ==
    \E c0 \in SlotChoices, c33 \in SlotChoices, s \in Settings,
       old \in BOOLEAN, oc \in BOOLEAN :
        LET self == MakeRegion(c0, c33, s)
        IN  /\ prior = IF old THEN <<OldImage(s)>> ELSE <<>>
            /\ dir = IF old THEN (Path(TheDir, self) :> 1) ELSE NoFiles
            /\ inodes = IF old THEN <<OldImage(s)>> ELSE <<>>
            /\ wr = (1 :> NewCall(self, TheDir, s.compression_level))
            /\ tampered = <<>>
            /\ overflow_checks = oc
            /\ input = <<>>
            /\ rpath = Path(TheDir, self)
            /\ result = <<>>

\* The bytes a corrupted byte may become.
TamperValues == {0, 1, 3, 255}

\* The offsets of the leading signature (0..7), the version (8) and the
\* trailing signature (the last 8 bytes) of a file of length n.
GateOffsets(n) == (0 .. 8) \cup ((n - 8) .. (n - 1))

\* One byte of the file write_linear produced is changed on disk.
Tamper ==
    /\ tampered = <<>>
    /\ result = <<>>
    /\ \A p \in DOMAIN wr : wr[p].pc = "done" /\ wr[p].ret = "Ok"
    /\ rpath \in DOMAIN dir
    /\ \E off \in GateOffsets(Len(inodes[dir[rpath]])), b \in TamperValues :
          /\ inodes[dir[rpath]][off + 1] # b
          /\ inodes' = [inodes EXCEPT ![dir[rpath]][off + 1] = b]
          /\ tampered' = <<off, b>>
    /\ UNCHANGED <<dir, wr, prior, overflow_checks, input, rpath, result>>

Next ==
    \/ \E p \in DOMAIN wr : Open(p)
    \/ \E p \in DOMAIN wr : Encode(p)
    \/ \E p \in DOMAIN wr : Write(p)
    \/ \E p \in DOMAIN wr : Flush(p)
    \/ \E p \in DOMAIN wr : Rename(p)
    \/ \E p \in DOMAIN wr : IoError(p)
    \/ \E p \in DOMAIN wr : Drop(p)
    \/ Tamper
    \/ OpenLinear

Spec == Init /\ [][Next]_vars

(***************************************************************************)
(* SpecConc: two write_linear calls for the same directory and the same    *)
(* region coordinates, interleaved at their file operations.               *)
(***************************************************************************)
InitConc ==
    \E ca \in SlotChoices, cb \in SlotChoices, s \in Settings, old \in BOOLEAN :
        LET a == MakeRegion(ca, EmptySlot, s)
            b == MakeRegion(EmptySlot, cb, s)
        IN  /\ ca.payload # <<>> /\ cb.payload # <<>>
            /\ Len(ca.payload[1]) < Len(cb.payload[1])
            /\ prior = IF old THEN <<OldImage(s)>> ELSE <<>>
            /\ dir = IF old THEN (Path(TheDir, a) :> 1) ELSE NoFiles
            /\ inodes = IF old THEN <<OldImage(s)>> ELSE <<>>
            /\ wr = (1 :> NewCall(a, TheDir, s.compression_level))
                    @@ (2 :> NewCall(b, TheDir, s.compression_level))
            /\ tampered = <<>>
            /\ overflow_checks = FALSE
            /\ input = <<>>
            /\ rpath = Path(TheDir, a)
            /\ result = <<>>

NextConc ==
    \/ \E p \in DOMAIN wr : Open(p)
    \/ \E p \in DOMAIN wr : Encode(p)
    \/ \E p \in DOMAIN wr : Write(p)
    \/ \E p \in DOMAIN wr : Flush(p)
    \/ \E p \in DOMAIN wr : Rename(p)
    \/ \E p \in DOMAIN wr : Drop(p)

SpecConc == InitConc /\ [][NextConc]_vars

(***************************************************************************)
(* SpecDecode: open_linear on files that were not made by write_linear.    *)
(* A file is made from a description: the path, the header fields, the     *)
(* declared sizes of slots 0, 32 and 33 (every other slot declares 0), the *)
(* number of payload bytes after the table, and where the block is cut.    *)
(***************************************************************************)
\* Paths, each with the coordinates its file name yields (<<>>: none).
PathCases ==
    {[path |-> <<"dir", "/", "r", ".", "1", ".", "2", ".", "linear">>,
      coords |-> <<1, 2>>],
     [path |-> <<"dir", "/", "r", ".", "0", ".", "1", "0", ".", "linear">>,
      coords |-> <<0, 10>>],
     [path |-> <<"r", ".", "+", "3", ".", "4", ".", "linear">>,
      coords |-> <<3, 4>>],
     [path |-> <<"dir", "/", "r", ".", "-", "1", ".", "2", ".", "linear">>,
      coords |-> <<>>],
     [path |-> <<"dir", "/", "r", ".", "x", ".", "2", ".", "linear">>,
      coords |-> <<>>],
     [path |-> <<"dir", "/", "r", ".", ".", "2", ".", "linear">>,
      coords |-> <<>>],
     [path |-> <<"dir", "/", "r", ".", "1", ".", "linear">>,
      coords |-> <<>>],
     [path |-> <<"dir", "/", "r", ".", "1">>,
      coords |-> <<>>],
     [path |-> <<"d", ".", "1", ".", "2", "/", "r">>,
      coords |-> <<>>]}

GoodPath == CHOOSE c \in PathCases : c.coords = <<1, 2>>

SizeChoices == {0, 1, 2, -1, MaxI32, MinI32}

\* Slot tables: every declared size, payload length and declared count.
TableInputs ==
    {[path |-> GoodPath, version |-> 2, chunk_count |-> n,
      size0 |-> a, size32 |-> b, size33 |-> c, paylen |-> len,
      cut |-> -1, clen |-> "exact"] :
        n \in {0, 1, 2, 3}, a \in SizeChoices, b \in {0, 1}, c \in SizeChoices,
        len \in {0, 1, 3}}

\* Framing: the version, a cut block, a wrong compressed_length.
FramingInputs ==
    {[path |-> GoodPath, version |-> v, chunk_count |-> n,
      size0 |-> a, size32 |-> 0, size33 |-> 0, paylen |-> a,
      cut |-> k, clen |-> cl] :
        v \in {1, 2}, n \in {0, 1}, a \in {0, 1},
        k \in {-1, 0, 12, HEADER_SIZE - 1},
        cl \in {"exact", "negative", "short", "long", "huge"}}

\* Paths: every path case in front of one well-formed file.
PathInputs ==
    {[path |-> pc, version |-> 2, chunk_count |-> 2,
      size0 |-> 1, size32 |-> 0, size33 |-> 2, paylen |-> 3,
      cut |-> -1, clen |-> "exact"] : pc \in PathCases}

DecodeInputs == TableInputs \cup FramingInputs \cup PathInputs

DeclaredSize(in, i) ==
    IF i = 0 THEN in.size0 ELSE IF i = 32 THEN in.size32
    ELSE IF i = 33 THEN in.size33 ELSE 0

DeclaredTimestamp(i) == IF i = 0 THEN 7 ELSE IF i = 33 THEN -7 ELSE 0

RECURSIVE CraftTable(_, _)
CraftTable(in, i) ==
    IF i = NumSlots THEN <<>>
    ELSE I32ToBE(DeclaredSize(in, i)) \o I32ToBE(DeclaredTimestamp(i))
         \o CraftTable(in, i + 1)

CraftBlock(in) ==
    LET whole == CraftTable(in, 0) \o [k \in 1 .. in.paylen |-> 10 + k]
    IN  IF in.cut < 0 THEN whole ELSE SubSeq(whole, 1, in.cut)

CraftFile(in) ==
    LET frame == encode_all(CraftBlock(in))
        compressed_length ==
            CASE in.clen = "exact" -> Len(frame)
              [] in.clen = "negative" -> -1
              [] in.clen = "short" -> Len(frame) - 1
              [] in.clen = "long" -> Len(frame) + 1
              [] in.clen = "huge" -> MaxI32
    IN  I64ToBE(LINEAR_SIGNATURE) \o <<I8ToByte(in.version)>>
        \o I64ToBE(<<0, 1234>>) \o <<3>> \o I16ToBE(in.chunk_count)
        \o I32ToBE(compressed_length) \o I64ToBE(<<0, 0>>)
        \o frame \o I64ToBE(LINEAR_SIGNATURE)

NoCalls == [q \in {} |-> 0]

InitDecode ==
    \E in \in DecodeInputs, oc \in BOOLEAN :
        /\ input = <<in>>
        /\ rpath = in.path.path
        /\ dir = (in.path.path :> 1)
        /\ inodes = <<CraftFile(in)>>
        /\ overflow_checks = oc
        /\ wr = NoCalls
        /\ prior = <<>>
        /\ tampered = <<>>
        /\ result = <<>>

NextDecode == OpenLinear

SpecDecode == InitDecode /\ [][NextDecode]_vars

(***************************************************************************)
(* Properties.                                                             *)
(***************************************************************************)
\* What the path handed to open_linear (the final path of the calls) holds:
\* <<>> (absent) or <<content>>.
FinalContent == IF rpath \in DOMAIN dir THEN <<inodes[dir[rpath]]>> ELSE <<>>

\* The same populated slots, payloads, timestamps, newest_timestamp and
\* region coordinates.
SameRegion(a, b) ==
    /\ \A i \in Slots :
          /\ (a.chunks[i] = <<>>) <=> (b.chunks[i] = <<>>)
          /\ a.chunks[i] # <<>> /\ b.chunks[i] # <<>>
                => a.chunks[i][1].raw_chunk = b.chunks[i][1].raw_chunk
          /\ a.timestamps[i] = b.timestamps[i]
    /\ a.newest_timestamp = b.newest_timestamp
    /\ a.region_x = b.region_x
    /\ a.region_z = b.region_z

\* C1 (as claimed): after a successful write_linear, open_linear on the file it
\* produced returns a Region with the same populated slots, payloads,
\* timestamps of all slots, newest_timestamp and coordinates.
C1_RoundTrip ==
    (result # <<>> /\ tampered = <<>> /\ wr[1].ret = "Ok")
        => /\ result[1].kind = "Ok"
           /\ SameRegion(result[1].region[1], wr[1].self)

\* The finished file of call p.
Image(p) == FileImage(wr[p].self, wr[p].compression_level)

\* What the temporary path of call p holds: <<>> (absent) or <<content>>.
WipContent(p) ==
    IF WipPath(wr[p].dir, wr[p].self) \in DOMAIN dir
    THEN <<inodes[dir[WipPath(wr[p].dir, wr[p].self)]]>> ELSE <<>>

\* C2: during one write_linear call only the rename changes what the final
\* path holds, the rename runs when the temporary file holds the whole new
\* file with nothing left in the buffer, the final path then holds exactly that
\* file, and a call that fails leaves the final path as it was before the call.
C2_FinalPathAtomic ==
    /\ [][(tampered' = tampered /\ FinalContent' # FinalContent)
            => /\ wr[1].pc = "rename" /\ wr'[1].pc = "done" /\ wr'[1].ret = "Ok"
               /\ wr[1].buf = <<>>
               /\ WipContent(1) = <<Image(1)>>
               /\ FinalContent' = <<Image(1)>>]_vars
    /\ []((tampered = <<>> /\ wr[1].ret # "Ok") => FinalContent = prior)

\* C2 witness: a call failed after it wrote to the temporary file, and the
\* file that was at the final path before is still there, unchanged.
C2_Witness ==
    /\ wr[1].pc = "done" /\ wr[1].ret = "Err"
    /\ WipContent(1) # <<>> /\ WipContent(1)[1] # <<>>
    /\ prior # <<>> /\ FinalContent = prior

\* The error open_linear is claimed to give when the byte at `off` of a file
\* of length n was changed.
GateError(off) ==
    IF off < 8 THEN "Invalid signature"
    ELSE IF off = 8 THEN "Invalid version"
    ELSE "Invalid footer signature"

\* C3 (as claimed): with any byte of the leading signature, of the version
\* field or of the trailing signature changed to any other value, open_linear
\* fails with the error of that field.
C3_AnyChangeRejected ==
    (result # <<>> /\ tampered # <<>>)
        => /\ result[1].kind = "Err"
           /\ result[1].err = GateError(tampered[1])

\* C3 (amended): a changed signature byte gives the invalid-signature error, a
\* changed footer byte the invalid-footer-signature error, and a version
\* changed to a value other than 1 and 2 the invalid-version error; a version
\* changed from 2 to 1 is a supported version: open_linear then gives what it
\* gives for the unchanged file.
C3_UnsupportedRejected ==
    (result # <<>> /\ tampered # <<>>)
        => IF tampered[1] = 8 /\ tampered[2] \in {1, 2}
           THEN result[1] = open_linear(rpath, (rpath :> 1), <<Image(1)>>,
                                        overflow_checks)
           ELSE /\ result[1].kind = "Err"
                /\ result[1].err = GateError(tampered[1])

\* C3 witness: the version byte was changed from 2 to 1 and open_linear
\* returned the Region.
C3_Witness ==
    /\ result # <<>> /\ tampered = <<8, 1>>
    /\ result[1].kind = "Ok"

\* C9 (as claimed): when a write_linear call that opened the temporary file
\* has returned, with an error or with success, the temporary path is gone.
C9_TempFileRemoved ==
    \A p \in DOMAIN wr :
        (wr[p].pc = "done" /\ wr[p].fd # 0) => WipContent(p) = <<>>

\* C10 (as claimed): with two interleaved calls for the same target, the final
\* path always holds the prior file or the complete file of one of the calls
\* (or is absent as before), and a call returns Ok only by its rename.
C10_FinalAlwaysComplete ==
    /\ FinalContent \in {prior, <<Image(1)>>, <<Image(2)>>}
    /\ \A p \in DOMAIN wr : wr[p].ret = "Ok" => wr[p].pc = "done"

(***************************************************************************)
(* Properties of open_linear on made-up files (SpecDecode).                *)
(***************************************************************************)
\* The file passes the three gates and its payload decompresses.
Gated(in) == in.path.coords # <<>> /\ in.clen = "exact"

\* The declared sizes of slots 0..k added up as integers of any size, as
\* <<high part, low part>>: the sum is high * 65536 + low.
DeclaredSum(in, k) ==
    LET hot == {i \in {0, 32, 33} : i <= k}
        hi(i) == DeclaredSize(in, i) \div 65536
        lo(i) == DeclaredSize(in, i) % 65536
        H == (IF 0 \in hot THEN hi(0) ELSE 0) + (IF 32 \in hot THEN hi(32) ELSE 0)
             + (IF 33 \in hot THEN hi(33) ELSE 0)
        L == (IF 0 \in hot THEN lo(0) ELSE 0) + (IF 32 \in hot THEN lo(32) ELSE 0)
             + (IF 33 \in hot THEN lo(33) ELSE 0)
    IN  <<H + (L \div 65536), L % 65536>>

\* The number of slot-table entries with a nonzero size.
NonzeroEntries(in) == Cardinality({i \in Slots : DeclaredSize(in, i) # 0})

\* The sum of the declared sizes plus the table's size is not the length of
\* the block (a block shorter than the table never matches).
SizesDisagree(in) ==
    \/ Len(CraftBlock(in)) < 8 * NumSlots
    \/ DeclaredSum(in, NumSlots) # <<0, Len(CraftBlock(in)) - 8 * NumSlots>>

\* C4 (as claimed): a gated file whose declared sizes plus 8192 do not add up
\* to the length of the decompressed block gets the decompressed-size error.
C4_SizeMismatchRejected ==
    (result # <<>> /\ Gated(input[1]) /\ SizesDisagree(input[1]))
        => /\ result[1].kind = "Err"
           /\ result[1].err = "Invalid decompressed size"

\* The block passes the decompressed-size check: the whole table is there, the
\* 32-bit sum of the sizes plus the table's size is the block's length, and in
\* a build that checks overflow no running total leaves the i32 range.
PassesSizeGate(in, oc) ==
    /\ Len(CraftBlock(in)) >= 8 * NumSlots
    /\ DeclaredSum(in, NumSlots)[2] = Len(CraftBlock(in)) - 8 * NumSlots
    /\ DeclaredSum(in, NumSlots)[1] % 65536 = 0
    /\ oc => \A k \in {0, 32, 33} : DeclaredSum(in, k)[1] \in -32768 .. 32767

\* C5 (as claimed): a gated file whose declared chunk_count differs from the
\* number of nonzero-size entries gets the chunk-count error.
C5_CountMismatchRejected ==
    (result # <<>> /\ Gated(input[1])
       /\ input[1].chunk_count # NonzeroEntries(input[1]))
        => /\ result[1].kind = "Err"
           /\ result[1].err = "Invalid chunk count"

\* C5 (amended): a gated file that passes the decompressed-size check, which
\* comes first, and whose declared chunk_count differs from the number of
\* nonzero-size entries gets the chunk-count error.
C5_CountMismatchAfterSizeGate ==
    (result # <<>> /\ Gated(input[1])
       /\ PassesSizeGate(input[1], overflow_checks)
       /\ input[1].chunk_count # NonzeroEntries(input[1]))
        => /\ result[1].kind = "Err"
           /\ result[1].err = "Invalid chunk count"

\* C5 witness: sizes and length agree, the counts do not, and open_linear
\* gave the chunk-count error.
C5_Witness ==
    /\ result # <<>> /\ Gated(input[1])
    /\ ~SizesDisagree(input[1])
    /\ input[1].chunk_count = 1 /\ NonzeroEntries(input[1]) = 2
    /\ result[1].err = "Invalid chunk count"

\* C6: in every Region open_linear returns, slot i holds a chunk exactly if
\* entry i of the slot table declares a nonzero size, and that chunk has
\* x = 32 * region_x + i % 32 and z = 32 * region_z + i / 32 for the
\* coordinates of the file name.
C6_SlotMapping ==
    (result # <<>> /\ result[1].kind = "Ok")
        => LET region == result[1].region[1]
               cx == input[1].path.coords[1]
               cz == input[1].path.coords[2]
           IN  \A i \in Slots :
                  /\ (region.chunks[i] # <<>>) <=> (DeclaredSize(input[1], i) # 0)
                  /\ region.chunks[i] # <<>>
                        => /\ region.chunks[i][1].x = 32 * cx + (i % 32)
                           /\ region.chunks[i][1].z = 32 * cz + (i \div 32)

\* C6 witness: r.1.2.linear with slots 32 and 33 populated: slot 32 is the
\* chunk (32, 65), slot 33 the chunk (33, 65).
C6_Witness ==
    /\ result # <<>> /\ result[1].kind = "Ok"
    /\ input[1].path.coords = <<1, 2>>
    /\ result[1].region[1].chunks[0] = <<>>
    /\ result[1].region[1].chunks[32] # <<>>
    /\ result[1].region[1].chunks[32][1].x = 32
    /\ result[1].region[1].chunks[32][1].z = 65
    /\ result[1].region[1].chunks[33] # <<>>
    /\ result[1].region[1].chunks[33][1].x = 33
    /\ result[1].region[1].chunks[33][1].z = 65

\* C7 (as claimed): open_linear ends with a returned error or with a returned
\* Region of exactly NumSlots slots and timestamps; it never aborts.
C7_AllOrNothing ==
    result # <<>>
        => \/ result[1].kind = "Err"
           \/ /\ result[1].kind = "Ok"
              /\ DOMAIN result[1].region[1].chunks = Slots
              /\ DOMAIN result[1].region[1].timestamps = Slots

\* C8 (as claimed): a path whose file name yields no two integer coordinates
\* gets the path-format error, and a Region that is returned carries the
\* coordinates of the file name.
C8_PathFormat ==
    result # <<>>
        => IF input[1].path.coords = <<>>
           THEN result[1].kind = "Err" /\ result[1].err = "ParseIntError"
           ELSE result[1].kind = "Ok"
                    => /\ result[1].region[1].region_x = input[1].path.coords[1]
                       /\ result[1].region[1].region_z = input[1].path.coords[2]

====
